---- MODULE Spec2Model ----
(***************************************************************************)
(* A model of Luxbeam/sequencer.py: the LuxbeamSequencer builder, its two  *)
(* name counters, the constant-variable cache, the Variable handle and the *)
(* two generator-based loop iterators.                                     *)
(*                                                                         *)
(* The builder's fields are the variables command, const_vars,             *)
(* loop_counter and var_counter.  Every method is an operator from a       *)
(* builder record to a result record [b, err, ret] (the builder after the  *)
(* call, the exception raised or "", the value returned) and an action     *)
(* that applies it to the variables for inputs drawn from small sets.      *)
(***************************************************************************)
EXTENDS Integers, Sequences, FiniteSets, TLC

VARIABLES
    command,        \* LuxbeamSequencer.command: the body, a list of token lists
    const_vars,     \* LuxbeamSequencer.const_vars: dict int -> Variable, in insertion order
    loop_counter,   \* LuxbeamSequencer._loop_counter.count
    var_counter,    \* LuxbeamSequencer._var_counter.count
    iters,          \* the loop iterator objects the caller has constructed
    gens,           \* the generators obtained from them (one per iteration begun), each
                    \* with the body length before and after its two steps (lo, pos, rlo, fin)
    ncalls,         \* number of direct calls so far that appended to a body
    issued,         \* names of the Variables handed to the caller
    resolved,       \* history: the integers passed to _assign_const_var, in call order
    minted,         \* history: the names minted for auto-named assign_var / assign_var_reg calls
    last,           \* the last call: [op, args, err, ret, ret2, again]
    peer            \* a second LuxbeamSequencer of the same process: its four fields

vars == <<command, const_vars, loop_counter, var_counter, iters, gens, ncalls,
          issued, resolved, minted, last, peer>>

---------------------------------------------------------------------------
(* Bounds of the exploration. *)
MaxOps == 2     \* direct calls that append, plus loop iterations begun

(* Program constants. *)
InumMin == 0
InumMax == 65535
LoadGlobalWaitFor == 400

---------------------------------------------------------------------------
(* Python values: k is the type, i the number (for a float, twice its      *)
(* value), s the text of a str, the name of a Variable, or str() of a     *)
(* float.                                                                  *)
PyInt(n) == [k |-> "int", i |-> n, s |-> ""]
Flt(twice, text) == [k |-> "float", i |-> twice, s |-> text]
StrV(t) == [k |-> "str", i |-> 0, s |-> t]
VarV(name) == [k |-> "var", i |-> 0, s |-> name]
NoneV == [k |-> "none", i |-> 0, s |-> "None"]

F35 == Flt(7, "3.5")

IsInt(v) == v.k = "int"
IsStr(v) == v.k = "str"
IsVariable(v) == v.k = "var"

(* Twice the numeric value of an int or a float, for comparisons. *)
Twice(v) == IF v.k = "int" THEN 2 * v.i ELSE v.i

(* str(v) *)
PyStr(v) == IF v.k = "int" THEN ToString(v.i) ELSE v.s

(* list(str(n)) for an integer n: its characters, one string each. *)
RECURSIVE DigitChars(_)
DigitChars(n) ==
    IF n < 10 THEN <<ToString(n)>>
    ELSE Append(DigitChars(n \div 10), ToString(n % 10))

PyChars(v) == IF v.i < 0 THEN <<"-">> \o DigitChars(-v.i) ELSE DigitChars(v.i)

(* ' '.join(line) *)
RECURSIVE Join(_)
Join(line) ==
    IF Len(line) = 0 THEN ""
    ELSE IF Len(line) = 1 THEN line[1]
    ELSE line[1] \o " " \o Join(Tail(line))

(* io.StringIO.getvalue(): the writes, concatenated. *)
RECURSIVE GetValue(_)
GetValue(writes) ==
    IF Len(writes) = 0 THEN "" ELSE writes[1] \o GetValue(Tail(writes))

---------------------------------------------------------------------------
(* Results of a call. *)
Ok(b, ret) == [b |-> b, err |-> "", ret |-> ret]
Raise(b, e) == [b |-> b, err |-> e, ret |-> NoneV]

(* _Counter.__call__ without the increment. *)
CounterCall_NoIncrement(count) == [r |-> count, count |-> count]

(* _Counter.__call__ : the value returned and the count afterwards. *)
CounterCall(count) == [r |-> count, count |-> count + 1]

(* LuxbeamSequencer._check_inum *)
CheckInum(inum) ==
    IF IsInt(inum)
    THEN IF InumMin <= inum.i /\ inum.i <= InumMax THEN "" ELSE "ValueError"
    ELSE "TypeError"

(* LuxbeamSequencer.add_line *)
AddLine(b, cmd, parameters) ==
    [b EXCEPT !.command = Append(@, <<cmd>> \o parameters)]

(* dumps writing the body before the constant assignments. *)
DumpsWrites_BodyFirst(b) ==
    LET constLine(j) ==
            "AssignVar " \o b.const_vars[j].var \o " "
                \o ToString(b.const_vars[j].value) \o " 1"
        n == Len(b.const_vars)
        m == Len(b.command)
    IN  [w \in 1..(2 * (n + m)) |->
            IF w % 2 = 0 THEN "\n"
            ELSE LET l == (w + 1) \div 2
                 IN  IF l <= m THEN Join(b.command[l]) ELSE constLine(l - m)]

(* LuxbeamSequencer.dumps: the writes made to the StringIO. *)
DumpsWrites(b) ==
    LET constLine(j) ==
            "AssignVar " \o b.const_vars[j].var \o " "
                \o ToString(b.const_vars[j].value) \o " 1"
        n == Len(b.const_vars)
        m == Len(b.command)
    IN  [w \in 1..(2 * (n + m)) |->
            IF w % 2 = 0 THEN "\n"
            ELSE LET l == (w + 1) \div 2
                 IN  IF l <= n THEN constLine(l) ELSE Join(b.command[l - n])]

(* dumps emptying the constant cache once it has written it. *)
Dumps_Consuming(b) ==
    Ok([b EXCEPT !.const_vars = <<>>], StrV(GetValue(DumpsWrites(b))))

Dumps(b) == Ok(b, StrV(GetValue(DumpsWrites(b))))

(* clear implemented as a reset of the builder. *)
Clear_Reset(b) ==
    Ok([command |-> <<>>, const_vars |-> <<>>, loop_counter |-> 0,
        var_counter |-> 0], NoneV)

(* LuxbeamSequencer.clear *)
Clear(b) == Raise(b, "NotImplementedError")

(* Position of value in the cache, 0 when absent (the KeyError branch). *)
CacheIndex(cache, value) ==
    IF \E j \in 1..Len(cache) : cache[j].value = value
    THEN CHOOSE j \in 1..Len(cache) : cache[j].value = value
    ELSE 0

(* _assign_const_var without the lookup: every call stores a new entry. *)
AssignConstVar_NoLookup(b, value) ==
    LET var == "ConstVar" \o PyStr(value)
    IN  Ok([b EXCEPT !.const_vars = Append(@, [value |-> value.i, var |-> var])],
           VarV(var))

(* LuxbeamSequencer._assign_const_var *)
AssignConstVar(b, value) ==
    LET j == CacheIndex(b.const_vars, value.i)
    IN  IF j # 0
        THEN Ok(b, VarV(b.const_vars[j].var))
        ELSE LET var == "ConstVar" \o PyStr(value)
             IN  Ok([b EXCEPT !.const_vars =
                        Append(@, [value |-> value.i, var |-> var])],
                    VarV(var))

(* The name an assign_var / assign_var_reg call uses, and the builder after
   minting it. *)
NameFor(b, var) ==
    IF var.k = "none"
    THEN LET c == CounterCall(b.var_counter)
         IN  [b |-> [b EXCEPT !.var_counter = c.count],
              name |-> "Var" \o ToString(c.r)]
    ELSE [b |-> b, name |-> var.s]

(* LuxbeamSequencer.assign_var *)
AssignVar(b, value, var, wait_for) ==
    LET n == NameFor(b, var)
    IN  Ok(AddLine(n.b, "AssignVar", <<n.name, PyStr(value), PyStr(wait_for)>>),
           VarV(n.name))

(* LuxbeamSequencer.assign_var_reg *)
AssignVarReg(b, regno, var, wait_for) ==
    LET n == NameFor(b, var)
    IN  Ok(AddLine(n.b, "AssignVarReg", <<n.name, PyStr(regno), PyStr(wait_for)>>),
           VarV(n.name))

(* load_global naming the constant itself, without the constant cache. *)
LoadGlobal_NoCache(b, inum, wait_for) ==
    IF IsInt(inum)
    THEN Ok(AddLine(b, "LoadGlobal", <<"ConstVar" \o PyStr(inum), PyStr(wait_for)>>),
            NoneV)
    ELSE IF ~IsVariable(inum) THEN Raise(b, "TypeError")
    ELSE Ok(AddLine(b, "LoadGlobal", <<inum.s, PyStr(wait_for)>>), NoneV)

(* LuxbeamSequencer.load_global *)
LoadGlobal(b, inum, wait_for) ==
    LET r == IF IsInt(inum) THEN AssignConstVar(b, inum) ELSE Ok(b, inum)
    IN  IF ~IsVariable(r.ret)
        THEN Raise(r.b, "TypeError")
        ELSE Ok(AddLine(r.b, "LoadGlobal", <<r.ret.s, PyStr(wait_for)>>), NoneV)

(* LuxbeamSequencer.label *)
Label(b, label, wait_for) ==
    IF ~IsStr(label) THEN Raise(b, "ValueError")
    ELSE Ok(AddLine(b, "Label", <<label.s, PyStr(wait_for)>>), NoneV)

(* LuxbeamSequencer.jump *)
Jump(b, label, wait_for) ==
    IF ~IsStr(label) THEN Raise(b, "ValueError")
    ELSE Ok(AddLine(b, "Jump", <<label.s, PyStr(wait_for)>>), NoneV)

(* LuxbeamSequencer.jump_if *)
JumpIf(b, var_a, operator, var_b, label, wait_for) ==
    IF ~IsStr(label) THEN Raise(b, "ValueError")
    ELSE IF ~IsVariable(var_a) THEN Raise(b, "TypeError")
    ELSE IF ~IsInt(var_b) /\ ~IsVariable(var_b) THEN Raise(b, "TypeError")
    ELSE LET r == IF IsInt(var_b) THEN AssignConstVar(b, var_b) ELSE Ok(b, var_b)
         IN  Ok(AddLine(r.b, "JumpIf",
                        <<var_a.s, operator, r.ret.s, label.s, PyStr(wait_for)>>),
                NoneV)

(* LuxbeamSequencer.wait: the parameters are the string str(value), which
   add_line unpacks into its characters. *)
Wait(b, value) == Ok(AddLine(b, "Wait", PyChars(value)), NoneV)

(* add routing an integer addend through the constant cache. *)
Add_Dedup(b, var_a, value_or_var_b, wait_for) ==
    IF ~IsVariable(var_a) THEN Raise(b, "TypeError")
    ELSE IF IsInt(value_or_var_b)
    THEN LET r == AssignConstVar(b, value_or_var_b)
         IN  Ok(AddLine(r.b, "Add", <<var_a.s, r.ret.s, PyStr(wait_for)>>), NoneV)
    ELSE IF IsVariable(value_or_var_b)
    THEN Ok(AddLine(b, "Add", <<var_a.s, value_or_var_b.s, PyStr(wait_for)>>), NoneV)
    ELSE Raise(b, "TypeError")

(* LuxbeamSequencer.add *)
Add(b, var_a, value_or_var_b, wait_for) ==
    IF ~IsVariable(var_a) THEN Raise(b, "TypeError")
    ELSE IF IsInt(value_or_var_b)
    THEN Ok(AddLine(b, "Add", <<var_a.s, PyStr(value_or_var_b), PyStr(wait_for)>>), NoneV)
    ELSE IF IsVariable(value_or_var_b)
    THEN Ok(AddLine(b, "Add", <<var_a.s, value_or_var_b.s, PyStr(wait_for)>>), NoneV)
    ELSE Raise(b, "TypeError")

(* x + other adding into x itself instead of into a new variable. *)
VariableAdd_InPlace(b, self, other) ==
    IF IsInt(other)
    THEN LET a == Add(b, self, other, PyInt(1))
         IN  IF a.err # "" THEN a ELSE Ok(a.b, self)
    ELSE Raise(b, "ValueError")

(* LuxbeamSequencerVariable.__add__ *)
VariableAdd(b, self, other) ==
    IF IsInt(other)
    THEN LET r == AssignVar(b, other, NoneV, PyInt(1))
             a == Add(r.b, r.ret, self, PyInt(1))
         IN  IF a.err # "" THEN a ELSE Ok(a.b, r.ret)
    ELSE Raise(b, "ValueError")

---------------------------------------------------------------------------
(* Loop iterator objects. *)
JumpIterator == [kind |-> "jump", start |-> NoneV, end |-> NoneV, step |-> NoneV]
RangeIterator(start, end, step) ==
    [kind |-> "range", start |-> start, end |-> end, step |-> step]

(* LuxbeamSequencer.jump_loop_iter / LuxbeamSequencerJumpLoopIterator.__init__ *)
JumpLoopIter == [err |-> "", it |-> JumpIterator]

(* The constructor accepting end = start. *)
RangeLoopIteratorInit_AllowEqual(start, end, step) ==
    IF IsVariable(start) \/ IsVariable(end)
    THEN [err |-> "", it |-> RangeIterator(start, end, step)]
    ELSE IF ~(Twice(end) >= Twice(start))
    THEN [err |-> "ValueError", it |-> JumpIterator]
    ELSE [err |-> "", it |-> RangeIterator(start, end, step)]

(* LuxbeamSequencerRangeLoopIterator.__init__ *)
RangeLoopIteratorInit(start, end, step) ==
    IF IsVariable(start) \/ IsVariable(end)
    THEN [err |-> "", it |-> RangeIterator(start, end, step)]
    ELSE IF ~(Twice(end) > Twice(start))
    THEN [err |-> "ValueError", it |-> JumpIterator]
    ELSE [err |-> "", it |-> RangeIterator(start, end, step)]

(* LuxbeamSequencer.range_loop_iter *)
RangeLoopIter(start, end, step) ==
    IF end.k = "none"
    THEN RangeLoopIteratorInit(PyInt(0), PyInt(0), step)
    ELSE RangeLoopIteratorInit(start, end, step)

(* The jump loop reading the loop counter without advancing it. *)
JumpLoopBegin_NoMint(b) ==
    LET label == StrV("Loop" \o ToString(b.loop_counter))
        r == Label(b, label, PyInt(1))
    IN  [b |-> r.b, err |-> r.err, ret |-> label, var_start |-> NoneV]

(* LuxbeamSequencerJumpLoopIterator.__iter__, up to the yield. *)
JumpLoopBegin(b) ==
    LET c == CounterCall(b.loop_counter)
        label == StrV("Loop" \o ToString(c.r))
        r == Label([b EXCEPT !.loop_counter = c.count], label, PyInt(1))
    IN  [b |-> r.b, err |-> r.err, ret |-> label, var_start |-> NoneV]

(* The jump loop closing with a second label instead of the jump. *)
JumpLoopResume_Label(b, g) == Label(b, g.label, PyInt(1))

(* LuxbeamSequencerJumpLoopIterator.__iter__, after the yield. *)
JumpLoopResume(b, g) == Jump(b, g.label, PyInt(1))

(* LuxbeamSequencerRangeLoopIterator.__iter__, up to the yield. *)
RangeLoopBegin(b, it) ==
    LET c == CounterCall(b.loop_counter)
        label == StrV("Loop_" \o ToString(c.r))
        b1 == [b EXCEPT !.loop_counter = c.count]
        a == IF IsVariable(it.start) THEN Ok(b1, it.start)
             ELSE AssignVar(b1, it.start, NoneV, PyInt(1))
        r == Label(a.b, label, PyInt(1))
    IN  [b |-> r.b, err |-> r.err, ret |-> label, var_start |-> a.ret]

(* The range loop comparing before it increments. *)
RangeLoopResume_JumpFirst(b, g, it) ==
    LET j == JumpIf(b, g.var_start, "<", it.end, g.label, PyInt(1))
    IN  IF j.err # "" THEN j
        ELSE Add(j.b, g.var_start, it.step, PyInt(1))

(* LuxbeamSequencerRangeLoopIterator.__iter__, after the yield. *)
RangeLoopResume(b, g, it) ==
    LET a == Add(b, g.var_start, it.step, PyInt(1))
    IN  IF a.err # "" THEN a
        ELSE JumpIf(a.b, g.var_start, "<", it.end, g.label, PyInt(1))

---------------------------------------------------------------------------
(* The builder as a record, and the inputs the caller draws from. *)
Self == [command |-> command, const_vars |-> const_vars,
         loop_counter |-> loop_counter, var_counter |-> var_counter]

(* The Variables the caller holds, and one of them (for the calls whose
   outcome does not depend on which Variable is passed). *)
VarArgs == {VarV(n) : n \in issued}
OneVar == IF issued = {} THEN {} ELSE {VarV(CHOOSE n \in issued : TRUE)}

RawLines == {<<"AssignVar", <<"ConstVar1", "1", "1">>>>}
AssignVarInputs ==
    {<<PyInt(0), NoneV>>, <<PyInt(1), StrV("ConstVar1")>>, <<PyInt(0), StrV("Var0")>>}
LoadGlobalInputs == {PyInt(1), PyInt(65536), F35} \cup OneVar
LabelInputs == {StrV("L"), StrV(""), PyInt(1)}
JumpIfInputs ==
    {<<a, PyInt(1), StrV("L")>> : a \in VarArgs}
    \cup {<<a, a, StrV("L")>> : a \in OneVar}
    \cup {<<a, F35, StrV("L")>> : a \in OneVar}
    \cup {<<PyInt(1), PyInt(1), StrV("L")>>, <<PyInt(1), PyInt(1), PyInt(1)>>}
WaitInputs == {PyInt(1), PyInt(10)}
AddInputs ==
    {<<a, PyInt(2), PyInt(1)>> : a \in VarArgs}
    \cup {<<a, a, PyInt(2)>> : a \in OneVar}
    \cup {<<a, F35, PyInt(1)>> : a \in OneVar}
    \cup {<<PyInt(1), PyInt(2), PyInt(1)>>}
VariableAddInputs ==
    {<<x, PyInt(2)>> : x \in VarArgs} \cup {<<x, F35>> : x \in OneVar}
RangeInputs ==
    {<<PyInt(0), PyInt(1), PyInt(3)>>, <<PyInt(0), F35, PyInt(1)>>,
     <<PyInt(5), PyInt(1), PyInt(1)>>, <<PyInt(1), PyInt(1), PyInt(-1)>>,
     <<PyInt(0), NoneV, PyInt(1)>>}
    \cup {<<x, PyInt(1), PyInt(1)>> : x \in OneVar}

(* The record of a call: the operation, its arguments, the exception raised
   ("" for none), the value returned (ret, and ret2 for the second component
   of a yielded pair), and whether it is a dumps() directly after a
   dumps(). *)
Call(op, args, err, ret, ret2) ==
    [op |-> op, args |-> args, err |-> err, ret |-> ret, ret2 |-> ret2,
     again |-> (op = "dumps" /\ last.op = "dumps")]

(* LuxbeamSequencer.__init__: the fields of a new builder, each a new
   object of its own (list, dict, two _Counter instances). *)
NewSequencer ==
    [command |-> <<>>, const_vars |-> <<>>, loop_counter |-> 0, var_counter |-> 0]

(* The builder's fields after a call on it that returned r; the fields of
   the other builder are other objects. *)
Becomes(r) ==
    /\ command' = r.b.command
    /\ const_vars' = r.b.const_vars
    /\ loop_counter' = r.b.loop_counter
    /\ var_counter' = r.b.var_counter
    /\ peer' = peer

(* The two counters as attributes of the class, shared by its instances. *)
PeerBecomes_SharedCounters(r) ==
    /\ peer' = r.b
    /\ loop_counter' = r.b.loop_counter
    /\ var_counter' = r.b.var_counter
    /\ UNCHANGED <<command, const_vars>>

(* The second builder's fields after a call on it that returned r. *)
PeerBecomes(r) ==
    /\ peer' = r.b
    /\ UNCHANGED <<command, const_vars, loop_counter, var_counter>>

(* A direct call on the second builder that returned r, within the budget
   of operations. *)
PeerDirect(r) ==
    /\ Len(r.b.command) > Len(peer.command) => ncalls + Len(gens) < MaxOps
    /\ ncalls' = IF Len(r.b.command) > Len(peer.command) THEN ncalls + 1 ELSE ncalls
    /\ PeerBecomes(r)

(* A direct call that returned r, within the budget of operations. *)
Direct(r) ==
    /\ Len(r.b.command) > Len(command) => ncalls + Len(gens) < MaxOps
    /\ ncalls' = IF Len(r.b.command) > Len(command) THEN ncalls + 1 ELSE ncalls
    /\ Becomes(r)

Init ==
    /\ command = <<>>
    /\ const_vars = <<>>
    /\ loop_counter = 0
    /\ var_counter = 0
    /\ iters = <<>>
    /\ gens = <<>>
    /\ ncalls = 0
    /\ issued = {}
    /\ resolved = <<>>
    /\ minted = <<>>
    /\ last = [op |-> "init", args |-> <<>>, err |-> "", ret |-> NoneV,
               ret2 |-> NoneV, again |-> FALSE]
    /\ peer = NewSequencer

DoAddLine ==
    \E raw \in RawLines :
        /\ Direct(Ok(AddLine(Self, raw[1], raw[2]), NoneV))
        /\ last' = Call("add_line", <<StrV(raw[1])>>, "", NoneV, NoneV)
        /\ UNCHANGED <<iters, gens, issued, resolved, minted>>

DoAssignVar ==
    \E in \in AssignVarInputs :
        LET r == AssignVar(Self, in[1], in[2], PyInt(1))
        IN  /\ Direct(r)
            /\ last' = Call("assign_var", <<in[1], in[2], PyInt(1)>>, r.err, r.ret, NoneV)
            /\ issued' = issued \cup {r.ret.s}
            /\ minted' = IF in[2].k = "none" THEN Append(minted, r.ret.s) ELSE minted
            /\ UNCHANGED <<iters, gens, resolved>>

DoAssignVarReg ==
    LET r == AssignVarReg(Self, PyInt(0), NoneV, PyInt(1))
    IN  /\ Direct(r)
        /\ last' = Call("assign_var_reg", <<PyInt(0), NoneV, PyInt(1)>>, r.err, r.ret, NoneV)
        /\ issued' = issued \cup {r.ret.s}
        /\ minted' = Append(minted, r.ret.s)
        /\ UNCHANGED <<iters, gens, resolved>>

DoLoadGlobal ==
    \E inum \in LoadGlobalInputs :
        LET r == LoadGlobal(Self, inum, PyInt(LoadGlobalWaitFor))
        IN  /\ Direct(r)
            /\ last' = Call("load_global", <<inum, PyInt(LoadGlobalWaitFor)>>, r.err, r.ret, NoneV)
            /\ resolved' = IF IsInt(inum) THEN Append(resolved, inum.i) ELSE resolved
            /\ UNCHANGED <<iters, gens, issued, minted>>

DoLabel ==
    \E label \in LabelInputs :
        LET r == Label(Self, label, PyInt(1))
        IN  /\ Direct(r)
            /\ last' = Call("label", <<label, PyInt(1)>>, r.err, r.ret, NoneV)
            /\ UNCHANGED <<iters, gens, issued, resolved, minted>>

DoJump ==
    \E label \in LabelInputs :
        LET r == Jump(Self, label, PyInt(1))
        IN  /\ Direct(r)
            /\ last' = Call("jump", <<label, PyInt(1)>>, r.err, r.ret, NoneV)
            /\ UNCHANGED <<iters, gens, issued, resolved, minted>>

DoJumpIf ==
    \E in \in JumpIfInputs :
        LET r == JumpIf(Self, in[1], "<", in[2], in[3], PyInt(1))
        IN  /\ Direct(r)
            /\ last' = Call("jump_if", <<in[1], StrV("<"), in[2], in[3], PyInt(1)>>,
                            r.err, r.ret, NoneV)
            /\ resolved' = IF r.err = "" /\ IsInt(in[2])
                           THEN Append(resolved, in[2].i) ELSE resolved
            /\ UNCHANGED <<iters, gens, issued, minted>>

DoWait ==
    \E value \in WaitInputs :
        LET r == Wait(Self, value)
        IN  /\ Direct(r)
            /\ last' = Call("wait", <<value>>, r.err, r.ret, NoneV)
            /\ UNCHANGED <<iters, gens, issued, resolved, minted>>

DoAdd ==
    \E in \in AddInputs :
        LET r == Add(Self, in[1], in[2], in[3])
        IN  /\ Direct(r)
            /\ last' = Call("add", <<in[1], in[2], in[3]>>, r.err, r.ret, NoneV)
            /\ UNCHANGED <<iters, gens, issued, resolved, minted>>

(* x + other for a Variable x the caller holds. *)
DoVariableAdd ==
    \E in \in VariableAddInputs :
        LET r == VariableAdd(Self, in[1], in[2])
        IN  /\ Direct(r)
            /\ last' = Call("__add__", <<in[1], in[2]>>, r.err, r.ret, NoneV)
            /\ issued' = IF r.err = "" THEN issued \cup {r.ret.s} ELSE issued
            /\ minted' = IF r.err = "" THEN Append(minted, r.ret.s) ELSE minted
            /\ UNCHANGED <<iters, gens, resolved>>

DoClear ==
    LET r == Clear(Self)
    IN  /\ Direct(r)
        /\ last' = Call("clear", <<>>, r.err, r.ret, NoneV)
        /\ UNCHANGED <<iters, gens, issued, resolved, minted>>

DoDumps ==
    LET r == Dumps(Self)
    IN  /\ Direct(r)
        /\ last' = Call("dumps", <<>>, r.err, r.ret, NoneV)
        /\ UNCHANGED <<iters, gens, issued, resolved, minted>>

(* The first next() of a new generator of iterator object i (which is `it`):
   the loop's code up to its yield. *)
Begin(i, it, op, args) ==
    LET r == IF it.kind = "jump" THEN JumpLoopBegin(Self)
             ELSE RangeLoopBegin(Self, it)
    IN  /\ ncalls + Len(gens) < MaxOps
        /\ Becomes(r)
        /\ gens' = Append(gens, [it |-> i, kind |-> it.kind, st |-> "suspended",
                                 label |-> r.ret, var_start |-> r.var_start,
                                 lo |-> Len(command), pos |-> Len(r.b.command),
                                 rlo |-> 0, fin |-> 0, err |-> ""])
        /\ last' = Call(op, args, r.err, r.ret, r.var_start)
        /\ issued' = IF it.kind = "range" THEN issued \cup {r.var_start.s} ELSE issued
        /\ minted' = IF it.kind = "range" /\ ~IsVariable(it.start)
                     THEN Append(minted, r.var_start.s) ELSE minted
        /\ UNCHANGED <<ncalls, resolved>>

(* for label in seq.jump_loop_iter(): the iterator is constructed and its
   generator driven to the yield. *)
DoJumpLoop ==
    /\ iters' = Append(iters, JumpLoopIter.it)
    /\ Begin(Len(iters) + 1, JumpLoopIter.it, "jump_loop_iter", <<>>)

(* for label, var in seq.range_loop_iter(start, end, step): the constructor
   raises, or the iterator is constructed and its generator driven to the
   yield. *)
DoRangeLoop ==
    \E in \in RangeInputs :
        LET r == RangeLoopIter(in[1], in[2], in[3])
        IN  IF r.err # ""
            THEN /\ last' = Call("range_loop_iter", in, r.err, NoneV, NoneV)
                 /\ UNCHANGED <<command, const_vars, loop_counter, var_counter,
                                iters, gens, ncalls, issued, resolved, minted, peer>>
            ELSE /\ iters' = Append(iters, r.it)
                 /\ Begin(Len(iters) + 1, r.it, "range_loop_iter", in)

(* Iterating an iterator object once more: a new generator of the same
   object, driven to its yield. *)
DoIterAgain ==
    \E i \in 1..Len(iters) :
        /\ UNCHANGED iters
        /\ Begin(i, iters[i], "iter", <<PyInt(i)>>)

(* The next next() on a suspended generator: the loop's code after its
   yield, ending in StopIteration or in the error the code raises. *)
DoResume ==
    \E j \in 1..Len(gens) :
        LET g == gens[j]
            it == iters[g.it]
            r == IF g.kind = "jump" THEN JumpLoopResume(Self, g)
                 ELSE RangeLoopResume(Self, g, it)
        IN  /\ g.st = "suspended"
            /\ Becomes(r)
            /\ gens' = [gens EXCEPT ![j].st = "done",
                                    ![j].rlo = Len(command),
                                    ![j].fin = Len(r.b.command),
                                    ![j].err = r.err]
            /\ last' = Call("resume", <<PyInt(j)>>,
                            IF r.err = "" THEN "StopIteration" ELSE r.err,
                            NoneV, NoneV)
            /\ resolved' = IF g.kind = "range" /\ r.err = "" /\ IsInt(it.end)
                           THEN Append(resolved, it.end.i) ELSE resolved
            /\ UNCHANGED <<iters, ncalls, issued, minted>>

(* next() on a finished generator raises StopIteration and runs no code. *)
DoNextDone ==
    \E j \in 1..Len(gens) :
        /\ gens[j].st = "done"
        /\ last' = Call("next", <<PyInt(j)>>, "StopIteration", NoneV, NoneV)
        /\ UNCHANGED <<command, const_vars, loop_counter, var_counter, iters, gens,
                       ncalls, issued, resolved, minted, peer>>

Next ==
    \/ DoAddLine
    \/ DoAssignVar
    \/ DoAssignVarReg
    \/ DoLoadGlobal
    \/ DoLabel
    \/ DoJump
    \/ DoJumpIf
    \/ DoWait
    \/ DoAdd
    \/ DoVariableAdd
    \/ DoClear
    \/ DoDumps
    \/ DoJumpLoop
    \/ DoRangeLoop
    \/ DoIterAgain
    \/ DoResume
    \/ DoNextDone

Spec == Init /\ [][Next]_vars

---------------------------------------------------------------------------
(* Two builders in one process: calls on the second builder, peer, between
   calls on the first. *)

(* The Variables the second builder has minted names for. *)
PeerVarArgs == {VarV("Var" \o ToString(n)) : n \in 0..(peer.var_counter - 1)}

PeerLoadGlobalInputs == {PyInt(1), PyInt(2)}

DoPeerAssignVar ==
    LET r == AssignVar(peer, PyInt(0), NoneV, PyInt(1))
    IN  /\ PeerDirect(r)
        /\ last' = Call("peer.assign_var", <<PyInt(0), NoneV, PyInt(1)>>, r.err, r.ret, NoneV)
        /\ UNCHANGED <<iters, gens, issued, resolved, minted>>

DoPeerLoadGlobal ==
    \E inum \in PeerLoadGlobalInputs :
        LET r == LoadGlobal(peer, inum, PyInt(LoadGlobalWaitFor))
        IN  /\ PeerDirect(r)
            /\ last' = Call("peer.load_global", <<inum, PyInt(LoadGlobalWaitFor)>>,
                            r.err, r.ret, NoneV)
            /\ UNCHANGED <<iters, gens, issued, resolved, minted>>

(* peer.add(x, 1) for a Variable x of the first builder. *)
DoPeerAdd ==
    \E x \in OneVar :
        LET r == Add(peer, x, PyInt(1), PyInt(1))
        IN  /\ PeerDirect(r)
            /\ last' = Call("peer.add", <<x, PyInt(1), PyInt(1)>>, r.err, r.ret, NoneV)
            /\ UNCHANGED <<iters, gens, issued, resolved, minted>>

(* y + 2 for a Variable y of the second builder (y.parent is peer). *)
DoPeerVariableAdd ==
    \E y \in PeerVarArgs :
        LET r == VariableAdd(peer, y, PyInt(2))
        IN  /\ PeerDirect(r)
            /\ last' = Call("peer.__add__", <<y, PyInt(2)>>, r.err, r.ret, NoneV)
            /\ UNCHANGED <<iters, gens, issued, resolved, minted>>

(* for label in peer.jump_loop_iter(): pass *)
DoPeerJumpLoop ==
    LET r1 == JumpLoopBegin(peer)
        r2 == JumpLoopResume(r1.b, [label |-> r1.ret])
    IN  /\ PeerDirect(r2)
        /\ last' = Call("peer.jump_loop_iter", <<>>, r2.err, r1.ret, NoneV)
        /\ UNCHANGED <<iters, gens, issued, resolved, minted>>

DoPeerDumps ==
    LET r == Dumps(peer)
    IN  /\ PeerDirect(r)
        /\ last' = Call("peer.dumps", <<>>, r.err, r.ret, NoneV)
        /\ UNCHANGED <<iters, gens, issued, resolved, minted>>

NextTwo ==
    \/ DoAssignVar
    \/ DoAssignVarReg
    \/ DoLoadGlobal
    \/ DoVariableAdd
    \/ DoJumpLoop
    \/ DoResume
    \/ DoDumps
    \/ DoPeerAssignVar
    \/ DoPeerLoadGlobal
    \/ DoPeerAdd
    \/ DoPeerVariableAdd
    \/ DoPeerJumpLoop
    \/ DoPeerDumps

SpecTwo == Init /\ [][NextTwo]_vars

---------------------------------------------------------------------------
(* Properties. *)

(* The l-th line of the text dumps() returns in the current state, for a
   line of the constants prefix: the write before its newline. *)
PrefixLine(l) ==
    DumpsWrites([Self EXCEPT !.command = <<>>])[2 * l - 1]

Values(seq) == {seq[k] : k \in 1..Len(seq)}

(* 'AssignVar ConstVar<v> <v> 1' *)
ConstLine(v) == "AssignVar ConstVar" \o ToString(v) \o " " \o ToString(v) \o " 1"

(* C1, as claimed: for every integer v resolved through the constant-dedup
   path, the text of dumps() contains exactly one line
   'AssignVar ConstVar<v> <v> 1', and it comes before every body line. *)
C1_Original ==
    LET w == DumpsWrites(Self)
    IN  \A v \in Values(resolved) :
            LET hits == {l \in 1..(Len(w) \div 2) : w[2 * l - 1] = ConstLine(v)}
            IN  /\ Cardinality(hits) = 1
                /\ \A l \in hits : l <= Len(const_vars)

(* C1, amended: for every integer v resolved through the constant-dedup
   path, the constants prefix of the text of dumps() (its first
   len(const_vars) lines) contains exactly one line
   'AssignVar ConstVar<v> <v> 1', and every body line comes after it. *)
C1_PrefixOnce ==
    LET w == DumpsWrites(Self)
        n == Len(const_vars)
    IN  \A v \in Values(resolved) :
            /\ Cardinality({l \in 1..n : w[2 * l - 1] = ConstLine(v)}) = 1
            /\ Len(w) = 2 * (n + Len(command))
            /\ \A k \in 1..Len(command) : w[2 * (n + k) - 1] = Join(command[k])

(* C1's case: one value has been resolved twice, and the body has lines. *)
C1_Witness ==
    /\ \E i, j \in 1..Len(resolved) : i # j /\ resolved[i] = resolved[j]
    /\ Len(command) >= 2
    /\ last.op = "dumps"

(* The constants in the order of their first resolution. *)
RECURSIVE FirstResolved(_)
FirstResolved(seq) ==
    IF Len(seq) = 0 THEN <<>>
    ELSE LET front == FirstResolved(SubSeq(seq, 1, Len(seq) - 1))
             v == seq[Len(seq)]
         IN  IF v \in Values(front) THEN front ELSE Append(front, v)

(* The text the claim describes, built line by line from the end. *)
RECURSIVE SpacedTokens(_)
SpacedTokens(line) ==
    IF Len(line) = 1 THEN line[1]
    ELSE SpacedTokens(SubSeq(line, 1, Len(line) - 1)) \o " " \o line[Len(line)]

RECURSIVE ConstText(_)
ConstText(vs) ==
    IF Len(vs) = 0 THEN ""
    ELSE ConstText(SubSeq(vs, 1, Len(vs) - 1)) \o ConstLine(vs[Len(vs)]) \o "\n"

RECURSIVE BodyText(_)
BodyText(cmd) ==
    IF Len(cmd) = 0 THEN ""
    ELSE BodyText(SubSeq(cmd, 1, Len(cmd) - 1)) \o SpacedTokens(cmd[Len(cmd)]) \o "\n"

(* C2: in every state dumps() returns one AssignVar line per cached
   constant, in the order of first resolution, then one line per body
   instruction in append order, each the space-joined tokens and a newline;
   the number of lines is the cache size plus the body length. *)
C2_DumpsText ==
    LET r == Dumps(Self)
        w == DumpsWrites(Self)
        n == Len(const_vars) + Len(command)
    IN  /\ r.err = ""
        /\ r.ret.s = ConstText(FirstResolved(resolved)) \o BodyText(command)
        /\ Len(w) = 2 * n
        /\ \A l \in 1..n : w[2 * l] = "\n"
        /\ last.op = "dumps" => last.ret = r.ret

(* C2's case: dumps() was called with two constants cached and a body. *)
C2_Witness ==
    /\ last.op = "dumps"
    /\ Len(const_vars) = 2
    /\ Len(command) >= 2

(* C3: the k-th call of assign_var / assign_var_reg made without a name
   (counting from 0, and counting the calls the Variable addition and the
   range loop make) is named Var<k>, and no two of them share a name. *)
C3_AutoNames ==
    /\ \A k \in 1..Len(minted) : minted[k] = "Var" \o ToString(k - 1)
    /\ \A i, j \in 1..Len(minted) : i # j => minted[i] # minted[j]
    /\ (last.op \in {"assign_var", "assign_var_reg"} /\ last.args[2].k = "none")
       => last.ret.s = minted[Len(minted)]

(* C3's case: a second auto-named call has returned. *)
C3_Witness ==
    /\ Len(minted) >= 2
    /\ last.op \in {"assign_var", "assign_var_reg"}
    /\ last.args[2].k = "none"

IsPrefix(a, b) == Len(a) <= Len(b) /\ SubSeq(b, 1, Len(a)) = a

(* The lines a step appended to the body. *)
Appended == SubSeq(command', Len(command) + 1, Len(command'))

(* The step is the begin step of a loop of this kind. *)
Began(kind) ==
    /\ last'.op \in {"jump_loop_iter", "range_loop_iter", "iter"}
    /\ last'.err = ""
    /\ Len(gens') = Len(gens) + 1
    /\ gens'[Len(gens')].kind = kind

(* The body around a jump loop: the label where the loop began, the closing
   jump where it was resumed. *)
C4_Shape ==
    \A j \in 1..Len(gens) :
        LET g == gens[j]
        IN  g.kind = "jump" =>
              /\ g.pos = g.lo + 1
              /\ command[g.pos] = <<"Label", g.label.s, "1">>
              /\ g.st = "done" =>
                    /\ g.err = ""
                    /\ g.pos <= g.rlo
                    /\ g.fin = g.rlo + 1
                    /\ command[g.fin] = <<"Jump", g.label.s, "1">>

(* C4: driving a jump loop to completion appends 'Label L 1' for the label L
   it yields, then what the caller emits while it is suspended, then
   'Jump L 1': the begin step appends the label alone and yields L, every
   step while it is suspended only appends, and the resume step appends the
   jump alone. *)
C4_JumpLoop ==
    [][/\ C4_Shape'
       /\ Began("jump") =>
            /\ Appended = <<<<"Label", last'.ret.s, "1">>>>
            /\ gens'[Len(gens')].label = last'.ret
       /\ (\E j \in 1..Len(gens) : gens[j].st = "suspended")
            => IsPrefix(command, command')]_vars

(* C4's case: a jump loop completed around a single wait. *)
C4_Witness ==
    \E j \in 1..Len(gens) :
        LET g == gens[j]
        IN  /\ g.kind = "jump" /\ g.st = "done"
            /\ SubSeq(command, g.lo + 1, g.fin)
                 = <<<<"Label", g.label.s, "1">>, <<"Wait", "1">>,
                     <<"Jump", g.label.s, "1">>>>

(* The range loops over integer bounds and step. *)
IntRange(g, its) ==
    /\ g.kind = "range"
    /\ IsInt(its[g.it].start) /\ IsInt(its[g.it].end) /\ IsInt(its[g.it].step)

(* The body around a range loop over integers, and the constant for its
   end in the cache and in the constants prefix. *)
C5_Shape ==
    \A j \in 1..Len(gens) :
        LET g == gens[j]
            it == iters[g.it]
            V == g.var_start.s
            L == g.label.s
        IN  IntRange(g, iters) =>
              /\ it.start.i < it.end.i
              /\ g.pos = g.lo + 2
              /\ command[g.lo + 1] = <<"AssignVar", V, ToString(it.start.i), "1">>
              /\ command[g.lo + 2] = <<"Label", L, "1">>
              /\ g.st = "done" =>
                    /\ g.err = ""
                    /\ g.pos <= g.rlo
                    /\ g.fin = g.rlo + 2
                    /\ command[g.rlo + 1] = <<"Add", V, ToString(it.step.i), "1">>
                    /\ command[g.rlo + 2]
                         = <<"JumpIf", V, "<", "ConstVar" \o ToString(it.end.i), L, "1">>
                    /\ Cardinality({c \in 1..Len(const_vars) :
                                      const_vars[c].value = it.end.i}) = 1
                    /\ Cardinality({l \in 1..Len(const_vars) :
                                      PrefixLine(l) = ConstLine(it.end.i)}) = 1

(* C5: for integers start < end and an integer step, driving
   range_loop_iter(start, end, step) to completion appends
   'AssignVar V <start> 1' and 'Label L 1' for the pair (L, V) it yields, V a
   name minted by this call, then what the caller emits, then
   'Add V <step> 1' and 'JumpIf V < ConstVar<end> L 1'; the constants prefix
   assigns ConstVar<end> exactly once. *)
C5_RangeLoop ==
    [][/\ C5_Shape'
       /\ (Began("range") /\ IntRange(gens'[Len(gens')], iters')) =>
            /\ Len(Appended) = 2
            /\ last'.ret = gens'[Len(gens')].label
            /\ last'.ret2 = gens'[Len(gens')].var_start
            /\ last'.ret2.s \notin Values(minted)
            /\ minted' = Append(minted, last'.ret2.s)
       /\ (\E j \in 1..Len(gens) : gens[j].st = "suspended")
            => IsPrefix(command, command')]_vars

(* C5's case: a range loop over integers completed. *)
C5_Witness ==
    \E j \in 1..Len(gens) :
        /\ IntRange(gens[j], iters)
        /\ gens[j].st = "done"
        /\ gens[j].rlo > gens[j].pos

(* The call is range_loop_iter(start, end, step) for integers start >= end. *)
C6_Case(c) ==
    /\ c.op = "range_loop_iter"
    /\ IsInt(c.args[1]) /\ IsInt(c.args[2])
    /\ c.args[1].i >= c.args[2].i

(* C6: for integers start >= end, range_loop_iter(start, end, step) raises
   ValueError and leaves the body, the cache, both counters and the
   iterators as they were; no name is minted. *)
C6_RangeError ==
    [][C6_Case(last') =>
         /\ last'.err = "ValueError"
         /\ UNCHANGED <<command, const_vars, loop_counter, var_counter, iters,
                        gens, minted, issued>>]_vars

(* C6's case: the constructor has refused integers start >= end, with a
   body and a counter that could have changed. *)
C6_Witness ==
    /\ C6_Case(last)
    /\ last.err = "ValueError"
    /\ Len(command) > 0
    /\ var_counter > 0

(* The errors a call can end in; StopIteration is how a generator ends. *)
Failed(c) == c.err \notin {"", "StopIteration"}

(* C7, as claimed: a call that ends in an error leaves the body as it was. *)
C7_Original == [][Failed(last') => command' = command]_vars

(* The text of a Variable or of an integer operand. *)
Operand(v) == IF IsInt(v) THEN ToString(v.i) ELSE v.s

(* C8: add(var_a, x, wait_for) raises TypeError when var_a is no Variable or
   x is neither an integer nor a Variable, and the body is unchanged;
   otherwise it appends the one line 'Add <var_a> <x> <wait_for>' and leaves
   the constant cache as it was. *)
C8_Add ==
    [][last'.op = "add" =>
         LET var_a == last'.args[1]
             x == last'.args[2]
             wait_for == last'.args[3]
         IN  IF ~IsVariable(var_a) \/ (~IsInt(x) /\ ~IsVariable(x))
             THEN /\ last'.err = "TypeError"
                  /\ command' = command
             ELSE /\ last'.err = ""
                  /\ command' = Append(command,
                        <<"Add", var_a.s, Operand(x), ToString(wait_for.i)>>)
                  /\ const_vars' = const_vars]_vars

(* C8's case: add has refused a float addend for a Variable. *)
C8_Witness ==
    /\ last.op = "add"
    /\ last.err = "TypeError"
    /\ IsVariable(last.args[1])
    /\ last.args[2] = F35
    /\ Len(command) > 0

(* C9: dumps() changes nothing of the builder, and two dumps() in a row
   return the same text. *)
C9_DumpsPure ==
    [][last'.op = "dumps" =>
         /\ last'.err = ""
         /\ UNCHANGED <<command, const_vars, loop_counter, var_counter>>
         /\ last.op = "dumps" => last'.ret = last.ret]_vars

(* C9's case: dumps() right after dumps(), with constants and a body. *)
C9_Witness ==
    /\ last.op = "dumps"
    /\ last.again
    /\ Len(const_vars) > 0
    /\ Len(command) > 0

(* C10, as claimed: load_global of an integer outside 0..65535 raises
   ValueError and changes neither body nor cache; of an integer inside it
   appends 'LoadGlobal ConstVar<value> <wait_for>' with the value cached; of
   anything but an integer or a Variable it raises TypeError. *)
C10_Original ==
    [][last'.op = "load_global" =>
         LET inum == last'.args[1]
             wait_for == last'.args[2]
         IN  /\ (IsInt(inum) /\ CheckInum(inum) # "") =>
                   /\ last'.err = "ValueError"
                   /\ command' = command
                   /\ const_vars' = const_vars
             /\ (IsInt(inum) /\ CheckInum(inum) = "") =>
                   /\ last'.err = ""
                   /\ command' = Append(command,
                         <<"LoadGlobal", "ConstVar" \o ToString(inum.i),
                           ToString(wait_for.i)>>)
                   /\ \E c \in 1..Len(const_vars') : const_vars'[c].value = inum.i
             /\ (~IsInt(inum) /\ ~IsVariable(inum)) => last'.err = "TypeError"]_vars

(* C11, as claimed: label(name) and jump(name) raise ValueError and append
   nothing unless name is a non-empty string (so also for the empty string);
   for a non-empty string they append the one line 'Label <name> <wait_for>'
   or 'Jump <name> <wait_for>'. *)
C11_Original ==
    [][last'.op \in {"label", "jump"} =>
         LET name == last'.args[1]
             wait_for == last'.args[2]
             opcode == IF last'.op = "label" THEN "Label" ELSE "Jump"
         IN  IF IsStr(name) /\ name.s # ""
             THEN /\ last'.err = ""
                  /\ command' = Append(command,
                        <<opcode, name.s, ToString(wait_for.i)>>)
             ELSE /\ last'.err = "ValueError"
                  /\ command' = command]_vars

(* The call is range_loop_iter(start) with end omitted. *)
C12_Case(c) == c.op = "range_loop_iter" /\ c.args[2].k = "none"

(* C12, as claimed: range_loop_iter with end omitted raises nothing and
   returns a range loop iterator whose start and end are both 0, which
   yields a label and a variable when driven. *)
C12_Original ==
    [][C12_Case(last') =>
         /\ last'.err = ""
         /\ Len(iters') = Len(iters) + 1
         /\ iters'[Len(iters')].kind = "range"
         /\ iters'[Len(iters')].start = PyInt(0)
         /\ iters'[Len(iters')].end = PyInt(0)
         /\ Began("range")]_vars

(* C13, as claimed: adding anything but an integer to a Variable raises
   TypeError, and neither the body nor the variable counter changes. *)
C13_Original ==
    [][(last'.op = "__add__" /\ ~IsInt(last'.args[2])) =>
         /\ last'.err = "TypeError"
         /\ command' = command
         /\ var_counter' = var_counter]_vars

(* The texts of the integer literals the model's calls pass as addends. *)
Numerals == {ToString(n) : n \in -9..9}

(* The names defined by the AssignVar / AssignVarReg lines before line k. *)
DefinedBefore(k) ==
    {command[j][2] : j \in {i \in 1..(k - 1) :
                              command[i][1] \in {"AssignVar", "AssignVarReg"}}}

(* The names of the Variables stored in the constant cache. *)
CacheNames == {const_vars[j].var : j \in 1..Len(const_vars)}

(* The variable names among the operands of a body line. *)
VarOperands(line) ==
    CASE line[1] = "LoadGlobal" -> {line[2]}
      [] line[1] = "JumpIf" -> {line[2], line[4]}
      [] line[1] = "Add" -> {line[2], line[3]} \ Numerals
      [] OTHER -> {}

(* C14: every variable name that is an operand of a LoadGlobal, JumpIf or
   Add line of the body is defined by an AssignVar / AssignVarReg line
   earlier in the body or is the name of a Variable in the constant cache,
   and every cached Variable has its AssignVar line in the constants prefix
   of dumps().  (The only raw add_line of the model appends an AssignVar
   line, which has no operand, so the statement is made of every state.) *)
C14_Defined ==
    /\ \A k \in 1..Len(command) :
          VarOperands(command[k]) \subseteq (DefinedBefore(k) \cup CacheNames)
    /\ \A j \in 1..Len(const_vars) :
          PrefixLine(j) = "AssignVar " \o const_vars[j].var \o " "
                             \o ToString(const_vars[j].value) \o " 1"

(* C14's case: jump_if has appended a line comparing a Variable defined in
   the body with a constant that is defined in the cache only. *)
C14_Witness ==
    /\ last.op = "jump_if"
    /\ last.err = ""
    /\ LET k == Len(command)
       IN  /\ command[k][1] = "JumpIf"
           /\ command[k][2] \in DefinedBefore(k) \ CacheNames
           /\ command[k][4] \in CacheNames \ DefinedBefore(k)

(* C15: the body only grows (what it held before a step is a prefix of what
   it holds after), whatever the step: a call that succeeds or fails,
   dumps() or clear(), before or after them; no entry of the constant cache
   is removed or changed; neither counter decreases. *)
C15_AppendOnly ==
    [][/\ IsPrefix(command, command')
       /\ IsPrefix(const_vars, const_vars')
       /\ loop_counter' >= loop_counter
       /\ var_counter' >= var_counter]_vars

(* C15's case: clear() was called on a builder with a body, a cached
   constant and an advanced counter, and raised. *)
C15_Witness ==
    /\ last.op = "clear"
    /\ last.err = "NotImplementedError"
    /\ Len(command) >= 2
    /\ Len(const_vars) > 0
    /\ var_counter > 0

(* The generators obtained from iterator object i. *)
GensOf(i) == {j \in 1..Len(gens) : gens[j].it = i}

(* C16, as claimed: over its lifetime one loop iterator object yields one
   value, mints one label and emits its Label line once, however often it
   is iterated. *)
C16_Original ==
    \A i \in 1..Len(iters) :
        /\ Cardinality(GensOf(i)) = 1
        /\ Cardinality({gens[j].label : j \in GensOf(i)}) = 1
        /\ Cardinality({k \in 1..Len(command) :
                          \E j \in GensOf(i) :
                              command[k] = <<"Label", gens[j].label.s, "1">>}) <= 1

(* C19, as claimed: wait(v) for an integer v >= 0 appends the one
   instruction with opcode Wait and the single parameter str(v), which
   serializes to 'Wait <v>'. *)
C19_Original ==
    [][(last'.op = "wait" /\ last'.args[1].i >= 0) =>
         /\ last'.err = ""
         /\ command' = Append(command, <<"Wait", ToString(last'.args[1].i)>>)
         /\ Join(command'[Len(command')]) = "Wait " \o ToString(last'.args[1].i)]_vars

(* The label the j-th generator begun on the builder carries: 'Loop<N>' for
   a jump loop, 'Loop_<N>' for a range loop, N the j-th value of the loop
   counter. *)
LoopName(j) ==
    (IF gens[j].kind = "jump" THEN "Loop" ELSE "Loop_") \o ToString(j - 1)

(* The Label line and the closing jump of every loop begun: the names, the
   body positions and the targets. *)
C20_Shape ==
    /\ loop_counter = Len(gens)
    /\ \A j \in 1..Len(gens) :
          LET g == gens[j]
          IN  /\ g.label.s = LoopName(j)
              /\ command[g.pos] = <<"Label", g.label.s, "1">>
              /\ (g.st = "done" /\ g.err = "") =>
                    /\ g.pos < g.fin
                    /\ command[g.fin][1] = (IF g.kind = "jump" THEN "Jump" ELSE "JumpIf")
                    /\ command[g.fin][Len(command[g.fin]) - 1] = g.label.s
    /\ \A i, j \in 1..Len(gens) : i # j => gens[i].label # gens[j].label

(* C20: the loops begun on the builder, jump and range in any order and
   nesting, carry pairwise distinct labels ('Loop<N>' / 'Loop_<N>', N from
   the one loop counter); the closing Jump or JumpIf a resumption appends
   targets the label of its own begin step; and when a loop is resumed after
   every loop begun later has been completed, its Label / closing pair
   encloses theirs. *)
C20_Labels ==
    [][/\ C20_Shape'
       /\ (last'.op = "resume" /\ last'.err = "StopIteration") =>
            LET i == last'.args[1].i
            IN  (\A j \in (i + 1)..Len(gens) :
                    gens[j].st = "done" /\ gens[j].err = "")
                => \A j \in (i + 1)..Len(gens) :
                      /\ gens'[i].pos < gens'[j].pos
                      /\ gens'[j].pos < gens'[j].fin
                      /\ gens'[j].fin < gens'[i].fin
                      /\ command'[gens'[i].fin][1] \in {"Jump", "JumpIf"}
                      /\ command'[gens'[j].fin][1] \in {"Jump", "JumpIf"}]_vars

(* C20's case: a jump loop and a range loop, one begun inside the other and
   completed first. *)
C20_Witness ==
    /\ Len(gens) = 2
    /\ gens[1].kind # gens[2].kind
    /\ gens[1].st = "done" /\ gens[2].st = "done"
    /\ gens[1].err = "" /\ gens[2].err = ""
    /\ gens[1].pos < gens[2].pos
    /\ gens[2].fin < gens[1].fin

(* The step is x + c for a Variable x and an integer c. *)
C17_Case(c) == c.op = "__add__" /\ IsVariable(c.args[1]) /\ IsInt(c.args[2])

(* What x + c does whatever the name of x: it appends 'AssignVar N <c> 1'
   and 'Add N <x> 1' for the name N = 'Var<k>', k the variable counter
   before, returns the Variable N, advances the variable counter by one and
   leaves the loop counter, the constant cache and the Variables issued
   before (x among them) as they were. *)
C17_Effect ==
    LET x == last'.args[1]
        c == last'.args[2]
        N == last'.ret.s
    IN  /\ last'.err = ""
        /\ IsVariable(last'.ret)
        /\ N = "Var" \o ToString(var_counter)
        /\ command' = command \o <<<<"AssignVar", N, ToString(c.i), "1">>,
                                  <<"Add", N, x.s, "1">>>>
        /\ var_counter' = var_counter + 1
        /\ loop_counter' = loop_counter
        /\ const_vars' = const_vars
        /\ issued' = issued \cup {N}
        /\ x.s \in issued'

(* C17, as claimed: x + c appends 'AssignVar N <c> 1' and 'Add N <x> 1'
   where N is a freshly minted name different from the name of x, returns
   the Variable N, advances the variable counter by one and leaves x and the
   constant cache unchanged. *)
C17_Original ==
    [][C17_Case(last') => (C17_Effect /\ last'.ret.s # last'.args[1].s)]_vars

(* C17, amended: the same, where N is the name the variable counter mints
   for this call: different from every name minted before, and from the
   name of x whenever that name was minted by the counter (a name the caller
   chose for x can be the one minted here). *)
C17_VariableAdd ==
    [][C17_Case(last') =>
         /\ C17_Effect
         /\ last'.ret.s \notin Values(minted)
         /\ minted' = Append(minted, last'.ret.s)
         /\ last'.args[1].s \in Values(minted) => last'.ret.s # last'.args[1].s]_vars

(* C17's case: c was added to a Variable the counter had named. *)
C17_Witness ==
    /\ C17_Case(last)
    /\ last.err = ""
    /\ last.args[1].s \in Values(minted)
    /\ Len(command) >= 3
    /\ command[Len(command)] = <<"Add", last.ret.s, last.args[1].s, "1">>

(* The call was made on the second builder. *)
OnPeer(c) ==
    c.op \in {"peer.assign_var", "peer.load_global", "peer.add", "peer.__add__",
              "peer.jump_loop_iter", "peer.dumps"}

(* The AssignVar lines of a body name Var0, Var1, ... in the order of the
   body (every assign_var the second builder sees is unnamed). *)
OwnNames(b) ==
    LET auto == SelectSeq(b.command, LAMBDA l : l[1] = "AssignVar")
    IN  /\ \A k \in 1..Len(auto) : auto[k][2] = "Var" \o ToString(k - 1)
        /\ b.var_counter = Len(auto)

(* C18: of two builders in one process, a call on one leaves the body, the
   constant cache and both counters of the other unchanged, so each mints
   its names in its own count and dumps() of the first is the text of its
   own resolutions and its own body;
   within a builder assign_var / assign_var_reg leave the loop counter and
   beginning a jump loop leaves the variable counter unchanged. *)
C18_Independent ==
    [][/\ OnPeer(last') =>
            /\ UNCHANGED <<command, const_vars, loop_counter, var_counter, minted>>
       /\ ~OnPeer(last') =>
            /\ peer' = peer
            /\ last'.op = "dumps" =>
                  last'.ret.s = ConstText(FirstResolved(resolved')) \o BodyText(command')
       /\ \A k \in 1..Len(minted') : minted'[k] = "Var" \o ToString(k - 1)
       /\ OwnNames(peer')
       /\ last'.op \in {"assign_var", "assign_var_reg"} => loop_counter' = loop_counter
       /\ last'.op = "peer.assign_var" => peer'.loop_counter = peer.loop_counter
       /\ Began("jump") => var_counter' = var_counter
       /\ last'.op = "peer.jump_loop_iter" => peer'.var_counter = peer.var_counter]_vars

(* C18's case: both builders have minted the same name Var0, each in its own
   body, and the last call was on the second. *)
C18_Witness ==
    /\ OnPeer(last)
    /\ var_counter > 0 /\ peer.var_counter > 0
    /\ command[1] = <<"AssignVar", "Var0", "0", "1">>
    /\ peer.command[1] = <<"AssignVar", "Var0", "0", "1">>

====
